---- MODULE Spec2Model ----
(***************************************************************************)
(* The auction coordinator of src/index.js (class AuctionServer) as a      *)
(* state machine.  Every RPC handler is an async function: the code        *)
(* between two awaits runs atomically (one JavaScript event-loop turn),    *)
(* and other handlers and timer callbacks interleave at each await.  One   *)
(* action of the model is one such turn: a handler from its invocation     *)
(* through its hbee.get to its first return or its hbee.put; the put       *)
(* together with the directory read of notifyClients that follows it; and  *)
(* the end of Promise.all with the rest of the handler.                    *)
(*                                                                         *)
(* Spec is the coordinator with a store and a transport that work.         *)
(* SpecFanout adds requests of notifyClients that fail, SpecFail store     *)
(* operations that throw under a handler, SpecTickFail store operations    *)
(* that throw under a timer callback.  SpecTimer is Spec with an event     *)
(* loop that runs: time passes and the timer callbacks take their steps.   *)
(* SpecRegister is the registration loop of the peers,                     *)
(* ClientServer.registerClient of src/auction-client/server.js.            *)
(*                                                                         *)
(* JavaScript values: an optional value is a sequence of length <= 1       *)
(* (Undefined == <<>>, Some(v) == <<v>>); JSON.stringify drops undefined   *)
(* fields, which is the same Undefined on the reader's side; null is a     *)
(* value of its own.  Numbers are integers; Date.now() is the clock `now`, *)
(* in seconds.                                                             *)
(***************************************************************************)
EXTENDS Integers, Sequences, FiniteSets, TLC

\* ------------------------------------------------------------------ bounds
MaxAuctions == 2
MaxProcs == 3
MaxTime == 10
ClockStep == 5
MaxFaults == 1

\* ------------------------------------------------------- program constants
\* const updateInterval = 5000 (ms), in seconds
updateInterval == 5
\* the timestamp: null of the sentinel bid of closeAuction
NullTimestamp == -1
\* async registerClient(retryCount = 5) of the peer
retryCount == 5

\* ------------------------------------------------------------ input values
\* the placeBid requests the clients send: bidder and amount
BidRequests ==
  { [bidder |-> "alice", amount |-> 3], [bidder |-> "bob", amount |-> 4],
    [bidder |-> "alice", amount |-> -1], [bidder |-> "bob", amount |-> 0] }
Peers == {"peer1", "peer2"}

AuctionIds == 1..MaxAuctions
Procs == 1..MaxProcs
TickIds == 1..(MaxTime \div updateInterval)

Undefined == <<>>
Some(v) == <<v>>
Null == "null"
NullValue == [null |-> TRUE]

\* The openAuction requests the clients send: price, auctionType and, for a
\* Dutch auction, decrementRate and minimumPrice (each may be left out).
OpenRequests ==
  { [auctionType |-> Some("english"), price |-> 2,
     decrementRate |-> Undefined, minimumPrice |-> Undefined],
    [auctionType |-> Some("english"), price |-> -2,
     decrementRate |-> Undefined, minimumPrice |-> Undefined],
    [auctionType |-> Some("dutch"), price |-> 8,
     decrementRate |-> Some(1), minimumPrice |-> Undefined] }

Max(a, b) == IF a >= b THEN a ELSE b

\* ---------------------------------------------------------- pure functions

\* parseFloat(x) || dflt: a missing field parses to NaN, and NaN and 0 are falsy
ParseFloatOr(x, dflt) == IF x = Undefined \/ x[1] = 0 THEN dflt ELSE x[1]

\* calculateDutchPrice without Math.max: the price falls below minimumPrice
calculateDutchPriceNoFloor(startPrice, startTime, decrementRate, minimumPrice, t) ==
  startPrice - (decrementRate * (t - startTime))

\* calculateDutchPrice(startPrice, startTime, decrementRate, minimumPrice),
\* with Date.now() passed as t
calculateDutchPrice(startPrice, startTime, decrementRate, minimumPrice, t) ==
  LET elapsedTime == t - startTime
      currentPrice == startPrice - (decrementRate * elapsedTime)
  IN  Max(currentPrice, minimumPrice)

\* bids.reduce((max, bid) => bid.amount > max.amount ? bid : max, init)
RECURSIVE ReduceMax(_, _)
ReduceMax(bids, max) ==
  IF bids = <<>> THEN max
  ELSE ReduceMax(Tail(bids), IF Head(bids).amount > max.amount THEN Head(bids) ELSE max)

\* { amount: 0, bidder: null, timestamp: null }
SentinelBid == [bidder |-> Null, amount |-> 0, timestamp |-> NullTimestamp]

\* the English threshold of placeBid: the reduce starts from { amount: 0 }
currentHighestBid(auctionDetails) ==
  IF Len(auctionDetails.bids) > 0
  THEN ReduceMax(auctionDetails.bids, SentinelBid).amount
  ELSE auctionDetails.startPrice

\* the record openAuction builds from the request
NewAuction(req, t) ==
  [ auctionType   |-> IF req.auctionType = Undefined THEN "english" ELSE req.auctionType[1],
    startPrice    |-> req.price,
    startTime     |-> t,
    decrementRate |-> IF req.auctionType = Some("dutch")
                      THEN ParseFloatOr(req.decrementRate, 1) ELSE 0,
    minimumPrice  |-> IF req.auctionType = Some("dutch")
                      THEN ParseFloatOr(req.minimumPrice, 0) ELSE 0,
    currentPrice  |-> req.price,
    closed        |-> FALSE,
    bids          |-> <<>>,
    highestBid    |-> Undefined,
    winner        |-> Undefined,
    finalPrice    |-> Undefined,
    winningBid    |-> Undefined ]

\* ------------------------------------------------------------- responses
NoResp ==
  [ success |-> Undefined, error |-> Undefined, auctionId |-> Undefined,
    currentPrice |-> Undefined, closed |-> Undefined,
    currentHighestBid |-> Undefined, startPrice |-> Undefined,
    highestBid |-> Undefined, winningBid |-> Undefined, auctionType |-> Undefined,
    details |-> Undefined ]

ErrNotFound == "Auction not found"
ErrClosed == "Auction already closed"
ErrDutchLow == "Bid must be equal to or higher than current price"
ErrStartLow == "Bid must be higher than starting price"
ErrHighestLow == "Bid must be higher than current highest bid"
\* error.message of a store operation that failed
ErrStore == "store failure"

\* the response of a handler's catch: { error: error.message }, and
\* { success: false, error: error.message } in registerClient
CatchResponse(op) ==
  IF op = "registerClient"
  THEN [NoResp EXCEPT !.success = Some(FALSE), !.error = Some(ErrStore)]
  ELSE [NoResp EXCEPT !.error = Some(ErrStore)]

\* --------------------------------------------------------------- the state
VARIABLES
  store,    \* hbee, the auction records: auctionId -> Undefined or Some(record)
  clients,  \* hbee, the value under the server's own key: the clients list
  now,      \* Date.now(), in seconds
  nextId,   \* the next fresh auctionId (crypto.randomBytes never repeats)
  procs,    \* the RPC handler invocations, each at its await
  timer,    \* per auction, the setInterval timer of startDutchAuctionTimer
  ticks,    \* per auction, the invocations of the timer callback
  reg,      \* per peer, ClientServer.registerClient: the registration loop
  faults    \* the number of store and transport operations that have failed

vars == <<store, clients, now, nextId, procs, timer, ticks, reg, faults>>

IdleProc ==
  [ op |-> "idle", pc |-> "idle", auctionId |-> 0, bidder |-> Null, amount |-> 0,
    local |-> Undefined, dir |-> <<>>, resp |-> NoResp, wrote |-> FALSE,
    sent |-> Undefined ]

IdleTick == [ pc |-> "idle", local |-> Undefined, wrote |-> FALSE, sent |-> Undefined ]

NoTimer == [ state |-> "none", nextFire |-> 0, fired |-> 0 ]

\* registerClient(retryCount = 5) of the peer: let attempts = retryCount
IdleReg == [ pc |-> "loop", attempts |-> retryCount, requests |-> 0, response |-> Undefined ]

Init ==
  /\ store = [a \in AuctionIds |-> Undefined]
  /\ clients = <<>>
  /\ now = 0
  /\ nextId = 1
  /\ procs = [p \in Procs |-> IdleProc]
  /\ timer = [a \in AuctionIds |-> NoTimer]
  /\ ticks = [a \in AuctionIds |-> [k \in TickIds |-> IdleTick]]
  /\ reg = [peer \in Peers |-> IdleReg]
  /\ faults = 0

\* Requests are served in the order of their invocation slots.
CanStart(p) ==
  /\ procs[p].pc = "idle"
  /\ \A q \in Procs : q < p => procs[q].pc # "idle"

Range(s) == { s[i] : i \in 1..Len(s) }

\* the handler returns: the response is sent and the invocation is over
Return(proc, resp) == [proc EXCEPT !.pc = "done", !.resp = resp, !.local = Undefined]

\* ------------------------------------------------------------ registerClient

\* Includes without its test: every peer is taken as not yet registered
IncludesNever(dir, peer) == FALSE

\* clients.clients.includes(req.serverPublicKey)
Includes(dir, peer) == peer \in Range(dir)

\* registerClient up to its first return or its await of hbee.put: the
\* directory is read, and the peer pushed when it is not included
RegisterClient(p) ==
  /\ CanStart(p)
  /\ \E peer \in Peers :
       LET dir == clients
           proc == [IdleProc EXCEPT !.op = "registerClient", !.bidder = peer]
       IN  procs' = [procs EXCEPT ![p] =
             IF ~Includes(dir, peer)
             THEN [proc EXCEPT !.pc = "put", !.dir = Append(dir, peer)]
             ELSE Return(proc, [NoResp EXCEPT !.success = Some(TRUE)])]
  /\ UNCHANGED <<store, clients, now, nextId, timer, ticks, reg, faults>>

\* await this.hbee.put(serverId, clients), then the success response
RegisterClientPut(p) ==
  /\ procs[p].op = "registerClient" /\ procs[p].pc = "put"
  /\ clients' = procs[p].dir
  /\ procs' = [procs EXCEPT ![p] =
       Return([procs[p] EXCEPT !.wrote = TRUE], [NoResp EXCEPT !.success = Some(TRUE)])]
  /\ UNCHANGED <<store, now, nextId, timer, ticks, reg, faults>>

\* --------------------------------------------------------------- openAuction

\* openAuction up to its await of hbee.put: a fresh auctionId and the record
OpenAuction(p) ==
  /\ CanStart(p)
  /\ nextId <= MaxAuctions
  /\ \E req \in OpenRequests :
       procs' = [procs EXCEPT ![p] =
         [IdleProc EXCEPT !.op = "openAuction", !.pc = "put", !.auctionId = nextId,
                          !.local = Some(NewAuction(req, now))]]
  /\ nextId' = nextId + 1
  /\ UNCHANGED <<store, clients, now, timer, ticks, reg, faults>>

\* ------------------------------------------------------------------ placeBid

\* AcceptDutchBid without auctionDetails.winner = req.bidder
AcceptDutchBidNoWinner(auctionDetails, bidder, bidAmount, t) ==
  [auctionDetails EXCEPT
     !.closed = TRUE,
     !.finalPrice = Some(bidAmount),
     !.winningBid = Some([bidder |-> bidder, amount |-> bidAmount, timestamp |-> t])]

\* lines 149-156: the Dutch auction ends with the first valid bid
AcceptDutchBid(auctionDetails, bidder, bidAmount, t) ==
  [auctionDetails EXCEPT
     !.closed = TRUE,
     !.winner = Some(bidder),
     !.finalPrice = Some(bidAmount),
     !.winningBid = Some([bidder |-> bidder, amount |-> bidAmount, timestamp |-> t])]

\* RecordBid without auctionDetails.currentPrice = bidAmount
RecordBidNoPrice(auctionDetails, bidder, bidAmount, t) ==
  [auctionDetails EXCEPT
     !.bids = Append(@, [bidder |-> bidder, amount |-> bidAmount, timestamp |-> t])]

\* lines 173-179: record the bid
RecordBid(auctionDetails, bidder, bidAmount, t) ==
  [auctionDetails EXCEPT
     !.bids = Append(@, [bidder |-> bidder, amount |-> bidAmount, timestamp |-> t]),
     !.currentPrice = bidAmount]

\* DutchTooLow with <= for <: a bid at exactly the current price is rejected
DutchTooLowStrict(bidAmount, currentPrice) == bidAmount <= currentPrice

\* bidAmount < currentPrice, the Dutch rejection
DutchTooLow(bidAmount, currentPrice) == bidAmount < currentPrice

\* EnglishTooLow with < for <=: a bid equal to the highest is let through
EnglishTooLowNonStrict(bidAmount, highest) == bidAmount < highest

\* bidAmount <= currentHighestBid.amount, the English rejection
EnglishTooLow(bidAmount, highest) == bidAmount <= highest

\* AlreadyClosed without its test: the `if (auctionDetails.closed)` return of
\* placeBid is never taken
AlreadyClosedNever(auctionDetails) == FALSE

\* if (auctionDetails.closed), the test of placeBid
AlreadyClosed(auctionDetails) == auctionDetails.closed

\* the early returns of placeBid: Some(response), or Undefined when the bid
\* passes them
PlaceBidRejection(entry, bidAmount, t) ==
  IF entry = Undefined THEN Some([NoResp EXCEPT !.error = Some(ErrNotFound)])
  ELSE LET auctionDetails == entry[1] IN
    IF AlreadyClosed(auctionDetails) THEN Some([NoResp EXCEPT !.error = Some(ErrClosed)])
    ELSE IF auctionDetails.auctionType = "dutch"
    THEN LET currentPrice == calculateDutchPrice(auctionDetails.startPrice,
                               auctionDetails.startTime, auctionDetails.decrementRate,
                               auctionDetails.minimumPrice, t)
         IN  IF DutchTooLow(bidAmount, currentPrice)
             THEN Some([NoResp EXCEPT !.error = Some(ErrDutchLow),
                                      !.currentPrice = Some(currentPrice)])
             ELSE Undefined
    ELSE LET highest == currentHighestBid(auctionDetails)
         IN  IF EnglishTooLow(bidAmount, highest)
             THEN Some([NoResp EXCEPT
                    !.error = Some(IF highest = auctionDetails.startPrice
                                   THEN ErrStartLow ELSE ErrHighestLow),
                    !.currentHighestBid = Some(highest),
                    !.startPrice = Some(auctionDetails.startPrice)])
             ELSE Undefined

\* the local auctionDetails of an admitted bid, as handed to hbee.put
PlaceBidLocal(auctionDetails, bidder, bidAmount, t) ==
  RecordBid(IF auctionDetails.auctionType = "dutch"
            THEN AcceptDutchBid(auctionDetails, bidder, bidAmount, t)
            ELSE auctionDetails,
            bidder, bidAmount, t)

\* placeBid up to its first return or its await of hbee.put
PlaceBid(p) ==
  /\ CanStart(p)
  /\ \E a \in AuctionIds, req \in BidRequests :
       LET bidder == req.bidder
           bidAmount == req.amount
           proc == [IdleProc EXCEPT !.op = "placeBid", !.auctionId = a,
                                    !.bidder = bidder, !.amount = bidAmount]
           rej  == PlaceBidRejection(store[a], bidAmount, now)
       IN  procs' = [procs EXCEPT ![p] =
             IF rej # Undefined THEN Return(proc, rej[1])
             ELSE [proc EXCEPT !.pc = "put",
                     !.local = Some(PlaceBidLocal(store[a][1], bidder, bidAmount, now))]]
  /\ UNCHANGED <<store, clients, now, nextId, timer, ticks, reg, faults>>

\* ---------------------------------------------------------------- closeAuction

\* the early returns of closeAuction
CloseAuctionRejection(entry) ==
  IF entry = Undefined THEN Some([NoResp EXCEPT !.error = Some(ErrNotFound)])
  ELSE IF entry[1].closed
  THEN Some([NoResp EXCEPT
         !.error = Some(ErrClosed),
         \* highestBid: auctionDetails.highestBid || null
         !.highestBid = IF entry[1].highestBid = Undefined
                        THEN Some(NullValue) ELSE entry[1].highestBid])
  ELSE Undefined

\* lines 220-229: mark the auction closed; English: find the highest bid
CloseAuctionLocal(auctionDetails) ==
  IF auctionDetails.auctionType = "english"
  THEN [auctionDetails EXCEPT !.closed = TRUE,
          !.highestBid = Some(ReduceMax(auctionDetails.bids, SentinelBid))]
  ELSE [auctionDetails EXCEPT !.closed = TRUE]

\* closeAuction up to its first return or its await of hbee.put
CloseAuction(p) ==
  /\ CanStart(p)
  /\ \E a \in AuctionIds :
       LET proc == [IdleProc EXCEPT !.op = "closeAuction", !.auctionId = a]
           rej  == CloseAuctionRejection(store[a])
       IN  procs' = [procs EXCEPT ![p] =
             IF rej # Undefined THEN Return(proc, rej[1])
             ELSE [proc EXCEPT !.pc = "put", !.local = Some(CloseAuctionLocal(store[a][1]))]]
  /\ UNCHANGED <<store, clients, now, nextId, timer, ticks, reg, faults>>

\* ------------------------------------------------------------ getAuctionDetails

\* lines 267-275: the live price of a Dutch auction is put into the local
\* copy of the record, whether the auction is open or closed
LiveDetails(auctionDetails, t) ==
  IF auctionDetails.auctionType = "dutch"
  THEN [auctionDetails EXCEPT !.currentPrice =
          calculateDutchPrice(auctionDetails.startPrice, auctionDetails.startTime,
            auctionDetails.decrementRate, auctionDetails.minimumPrice, t)]
  ELSE auctionDetails

\* GetAuctionDetailsResponse without its `if (!auctionDetails)` return: the
\* missing record makes Buffer.from(undefined) throw, and the catch answers
\* with the message of that TypeError
GetAuctionDetailsResponseNoCheck(entry, t) ==
  IF entry = Undefined THEN [NoResp EXCEPT !.error = Some("TypeError")]
  ELSE [NoResp EXCEPT !.details = Some(LiveDetails(entry[1], t))]

\* the response of getAuctionDetails: NotFound, or the record (details)
GetAuctionDetailsResponse(entry, t) ==
  IF entry = Undefined THEN [NoResp EXCEPT !.error = Some(ErrNotFound)]
  ELSE [NoResp EXCEPT !.details = Some(LiveDetails(entry[1], t))]

\* getAuctionDetails: the record is read and the response returned
GetAuctionDetails(p) ==
  /\ CanStart(p)
  /\ \E a \in AuctionIds :
       procs' = [procs EXCEPT ![p] =
         Return([IdleProc EXCEPT !.op = "getAuctionDetails", !.auctionId = a],
                GetAuctionDetailsResponse(store[a], now))]
  /\ UNCHANGED <<store, clients, now, nextId, timer, ticks, reg, faults>>

\* --------------------------------------- hbee.put, notifyClients, the response

AuctionOps == {"openAuction", "placeBid", "closeAuction"}

\* the type and data each handler passes to notifyClients
HandlerEvent(proc) ==
  LET auctionDetails == proc.local[1] IN
  CASE proc.op = "openAuction" ->
         [type |-> "newAuction", auctionId |-> proc.auctionId,
          data |-> [auction |-> auctionDetails]]
    [] proc.op = "placeBid" ->
         [type |-> "newBid", auctionId |-> proc.auctionId,
          data |-> [bid |-> auctionDetails.bids[Len(auctionDetails.bids)],
                    auctionType |-> auctionDetails.auctionType,
                    closed |-> auctionDetails.closed,
                    currentPrice |-> proc.amount]]
    [] proc.op = "closeAuction" ->
         [type |-> "auctionClosed", auctionId |-> proc.auctionId,
          data |-> [highestBid |-> auctionDetails.highestBid,
                    winningBid |-> auctionDetails.winningBid,
                    auctionType |-> Some(auctionDetails.auctionType),
                    finalPrice |-> auctionDetails.finalPrice,
                    reason |-> Undefined]]

\* notifyClients: the directory is read and one request per client issued
Broadcast(event, dir) ==
  Some([type |-> event.type, auctionId |-> event.auctionId, data |-> event.data,
        to |-> Range(dir), failed |-> {}])

\* await this.hbee.put(auctionId, auctionDetails): the whole local record
\* replaces the stored one; then notifyClients reads the directory and issues
\* its requests
HbeePut(p) ==
  /\ procs[p].op \in AuctionOps /\ procs[p].pc = "put"
  /\ store' = [store EXCEPT ![procs[p].auctionId] = procs[p].local]
  /\ procs' = [procs EXCEPT ![p] =
       [@ EXCEPT !.pc = "notify", !.wrote = TRUE,
                 !.sent = Broadcast(HandlerEvent(procs[p]), clients)]]
  /\ UNCHANGED <<clients, now, nextId, timer, ticks, reg, faults>>

\* the response each handler builds after notifyClients
HandlerResponse(proc) ==
  LET auctionDetails == proc.local[1] IN
  CASE proc.op = "openAuction" -> [NoResp EXCEPT !.auctionId = Some(proc.auctionId)]
    [] proc.op = "placeBid" ->
         [NoResp EXCEPT !.success = Some(TRUE),
                        !.currentPrice = Some(proc.amount),
                        !.closed = Some(auctionDetails.closed)]
    [] proc.op = "closeAuction" ->
         [NoResp EXCEPT !.success = Some(TRUE),
                        !.highestBid = auctionDetails.highestBid,
                        !.winningBid = auctionDetails.winningBid,
                        !.auctionType = Some(auctionDetails.auctionType)]

\* StartsTimer without the test of the auction type
StartsTimerAlways(proc) == proc.op = "openAuction"

\* if (req.auctionType === 'dutch') this.startDutchAuctionTimer(auctionId),
\* the statement of openAuction after its broadcast
StartsTimer(proc) ==
  proc.op = "openAuction" /\ proc.local[1].auctionType = "dutch"

\* startDutchAuctionTimer: setInterval(callback, updateInterval)
StartTimer(t) == [ state |-> "running", nextFire |-> t + updateInterval, fired |-> 0 ]

\* notifyClients without its two catches: a request that fails rejects
\* Promise.all and with it notifyClients
notifyClientsNoCatch(failed) == IF failed = {} THEN "resolved" ELSE "rejected"

\* how notifyClients ends when the requests to the peers in failed have
\* failed: each failure is caught and logged per client (lines 302-304), and
\* anything else by the outer catch (307-309)
notifyClients(failed) == "resolved"

\* note in the broadcast the requests that failed
WithFailed(sent, failed) ==
  IF sent = Undefined THEN sent ELSE Some([sent[1] EXCEPT !.failed = failed])

\* await this.notifyClients(...) ends, the requests to the peers in failed
\* having failed: openAuction starts the timer of a Dutch auction and the
\* handler returns its response; a rejection would go to the handler's catch
NotifyEnds(p, failed) ==
  LET proc == [procs[p] EXCEPT !.sent = WithFailed(@, failed)]
      resolved == notifyClients(failed) = "resolved"
  IN
  /\ procs[p].op \in AuctionOps /\ procs[p].pc = "notify"
  /\ procs' = [procs EXCEPT ![p] =
       Return(proc, IF resolved THEN HandlerResponse(proc) ELSE CatchResponse(proc.op))]
  /\ timer' = IF resolved /\ StartsTimer(procs[p])
              THEN [timer EXCEPT ![procs[p].auctionId] = StartTimer(now)]
              ELSE timer
  /\ UNCHANGED <<store, clients, now, nextId, ticks, reg>>

\* await Promise.all(notifications) ends, every request answered
NotifyDone(p) == NotifyEnds(p, {}) /\ UNCHANGED faults

\* ------------------------------------------------- startDutchAuctionTimer

\* ClearInterval without effect: the timer goes on
ClearIntervalNever(tm) == tm

\* clearInterval(timer): stops a running timer, a no-op on a stopped one
ClearInterval(tm) == [tm EXCEPT !.state = "cleared"]

\* FloorReached with < for <=: a price equal to the minimum does not close
FloorReachedStrict(currentPrice, minimumPrice) == currentPrice < minimumPrice

\* currentPrice <= auctionDetails.minimumPrice: the minimum price is reached
FloorReached(currentPrice, minimumPrice) == currentPrice <= minimumPrice

\* lines 326-348: the record a tick hands to hbee.put
TickLocal(auctionDetails, t) ==
  LET currentPrice == calculateDutchPrice(auctionDetails.startPrice,
                        auctionDetails.startTime, auctionDetails.decrementRate,
                        auctionDetails.minimumPrice, t)
  IN  IF FloorReached(currentPrice, auctionDetails.minimumPrice)
      THEN [auctionDetails EXCEPT !.closed = TRUE,
                                  !.currentPrice = auctionDetails.minimumPrice]
      ELSE [auctionDetails EXCEPT !.currentPrice = currentPrice]

\* The interval elapses and the callback runs up to its return or its await
\* of hbee.put: the auction is read; a closed (or missing) one clears the timer.
TimerFire(a) ==
  /\ timer[a].state = "running"
  /\ now >= timer[a].nextFire
  /\ timer[a].fired + 1 \in TickIds
  /\ LET k == timer[a].fired + 1
         entry == store[a]
         stop == entry = Undefined \/ entry[1].closed
         tm == [timer[a] EXCEPT !.fired = k, !.nextFire = now + updateInterval]
     IN  /\ ticks' = [ticks EXCEPT ![a][k] =
               IF stop THEN [@ EXCEPT !.pc = "done"]
               ELSE [@ EXCEPT !.pc = "put", !.local = Some(TickLocal(entry[1], now))]]
         /\ timer' = [timer EXCEPT ![a] = IF stop THEN ClearInterval(tm) ELSE tm]
  /\ UNCHANGED <<store, clients, now, nextId, procs, reg, faults>>

\* the type and data a tick passes to notifyClients
TickEvent(a, auctionDetails) ==
  IF auctionDetails.closed
  THEN [type |-> "auctionClosed", auctionId |-> a,
        data |-> [highestBid |-> Undefined, winningBid |-> Undefined,
                  auctionType |-> Undefined,
                  finalPrice |-> Some(auctionDetails.minimumPrice),
                  reason |-> Some("minimum_price_reached")]]
  ELSE [type |-> "priceUpdate", auctionId |-> a,
        data |-> [currentPrice |-> auctionDetails.currentPrice]]

\* await this.hbee.put(auctionId, auctionDetails) of a tick; then
\* notifyClients reads the directory and issues its requests
TickPut(a, k) ==
  /\ ticks[a][k].pc = "put"
  /\ store' = [store EXCEPT ![a] = ticks[a][k].local]
  /\ ticks' = [ticks EXCEPT ![a][k] =
       [@ EXCEPT !.pc = "notify", !.wrote = TRUE,
                 !.sent = Broadcast(TickEvent(a, ticks[a][k].local[1]), clients)]]
  /\ UNCHANGED <<clients, now, nextId, procs, timer, reg, faults>>

\* await this.notifyClients(...) of a tick ends, the requests to the peers
\* in failed having failed; the closing tick clears the timer, and so would
\* the catch of the callback after a rejection
TickNotifyEnds(a, k, failed) ==
  /\ ticks[a][k].pc = "notify"
  /\ ticks' = [ticks EXCEPT ![a][k] =
       [@ EXCEPT !.pc = "done", !.local = Undefined, !.sent = WithFailed(@, failed)]]
  /\ timer' = IF ticks[a][k].local[1].closed \/ notifyClients(failed) # "resolved"
              THEN [timer EXCEPT ![a] = ClearInterval(@)]
              ELSE timer
  /\ UNCHANGED <<store, clients, now, nextId, procs, reg>>

\* Promise.all of a tick ends, every request answered
TickNotifyDone(a, k) == TickNotifyEnds(a, k, {}) /\ UNCHANGED faults

\* ------------------------------------------------------------------ the clock

\* Time passes; a timer that is due fires before more time passes.
Advance ==
  /\ now + ClockStep <= MaxTime
  /\ \A a \in AuctionIds : timer[a].state = "running" => now < timer[a].nextFire
  /\ now' = now + ClockStep
  /\ UNCHANGED <<store, clients, nextId, procs, timer, ticks, reg, faults>>

Next ==
  \/ \E p \in Procs : RegisterClient(p)
  \/ \E p \in Procs : RegisterClientPut(p)
  \/ \E p \in Procs : OpenAuction(p)
  \/ \E p \in Procs : PlaceBid(p)
  \/ \E p \in Procs : CloseAuction(p)
  \/ \E p \in Procs : GetAuctionDetails(p)
  \/ \E p \in Procs : HbeePut(p)
  \/ \E p \in Procs : NotifyDone(p)
  \/ \E a \in AuctionIds : TimerFire(a)
  \/ \E a \in AuctionIds, k \in TickIds : TickPut(a, k)
  \/ \E a \in AuctionIds, k \in TickIds : TickNotifyDone(a, k)
  \/ Advance

Spec == Init /\ [][Next]_vars

\* a step of the timer of auction a: the callback starts, or one of its awaits ends
TickStep(a) ==
  \/ TimerFire(a)
  \/ \E k \in TickIds : TickPut(a, k)
  \/ \E k \in TickIds : TickNotifyDone(a, k)

\* The event loop of the coordinator runs: time passes, an interval that has
\* elapsed calls its callback, and the awaits of a callback end (the store
\* answers, and a request to a peer ends at the latest with its 5 s timeout).
\* Peers are not obliged to call.
SpecTimer ==
  /\ Init /\ [][Next]_vars
  /\ WF_vars(Advance)
  /\ \A a \in AuctionIds : WF_vars(TickStep(a))

\* ------------------------------------------- store and transport failures

\* one more operation fails, within the bound of the model
Fault == faults < MaxFaults /\ faults' = faults + 1

\* the handlers that start with a read of the store
ReadingOps == {"registerClient", "placeBid", "closeAuction", "getAuctionDetails"}

\* await this.hbee.get(...) of a handler throws before anything of the
\* request is used: the catch answers
HbeeGetFail(p) ==
  /\ CanStart(p)
  /\ \E op \in ReadingOps :
       procs' = [procs EXCEPT ![p] =
         Return([IdleProc EXCEPT !.op = op], CatchResponse(op))]
  /\ UNCHANGED <<store, clients, now, nextId, timer, ticks, reg>>
  /\ Fault

\* await this.hbee.put(...) of a handler throws: nothing is stored, the
\* statements after it are skipped and the catch answers
HbeePutFail(p) ==
  /\ procs[p].pc = "put"
  /\ procs' = [procs EXCEPT ![p] = Return(@, CatchResponse(@.op))]
  /\ UNCHANGED <<store, clients, now, nextId, timer, ticks, reg>>
  /\ Fault

\* hbee.put succeeds and the hbee.get of notifyClients throws: the outer
\* catch of notifyClients logs it and no request is issued
DirectoryGetFail(p) ==
  /\ procs[p].op \in AuctionOps /\ procs[p].pc = "put"
  /\ store' = [store EXCEPT ![procs[p].auctionId] = procs[p].local]
  /\ procs' = [procs EXCEPT ![p] = [@ EXCEPT !.pc = "notify", !.wrote = TRUE]]
  /\ UNCHANGED <<clients, now, nextId, timer, ticks, reg>>
  /\ Fault

\* Promise.all ends after some of the requests have failed (timeout after
\* 5 s, peer unreachable, transport error)
NotifyFail(p) ==
  /\ procs[p].sent # Undefined
  /\ \E failed \in (SUBSET procs[p].sent[1].to) \ {{}} : NotifyEnds(p, failed)
  /\ Fault

\* the hbee.get of the timer callback throws: the catch clears the timer
TickGetFail(a) ==
  /\ timer[a].state = "running"
  /\ now >= timer[a].nextFire
  /\ timer[a].fired + 1 \in TickIds
  /\ LET k == timer[a].fired + 1 IN
     /\ ticks' = [ticks EXCEPT ![a][k] = [@ EXCEPT !.pc = "done"]]
     /\ timer' = [timer EXCEPT ![a] =
          ClearInterval([@ EXCEPT !.fired = k, !.nextFire = now + updateInterval])]
  /\ UNCHANGED <<store, clients, now, nextId, procs, reg>>
  /\ Fault

\* the hbee.put of the timer callback throws: the catch clears the timer
TickPutFail(a, k) ==
  /\ ticks[a][k].pc = "put"
  /\ ticks' = [ticks EXCEPT ![a][k] = [@ EXCEPT !.pc = "done", !.local = Undefined]]
  /\ timer' = [timer EXCEPT ![a] = ClearInterval(@)]
  /\ UNCHANGED <<store, clients, now, nextId, procs, reg>>
  /\ Fault

\* hbee.put of a tick succeeds and the hbee.get of notifyClients throws
TickDirectoryGetFail(a, k) ==
  /\ ticks[a][k].pc = "put"
  /\ store' = [store EXCEPT ![a] = ticks[a][k].local]
  /\ ticks' = [ticks EXCEPT ![a][k] = [@ EXCEPT !.pc = "notify", !.wrote = TRUE]]
  /\ UNCHANGED <<clients, now, nextId, procs, timer, reg>>
  /\ Fault

\* Promise.all of a tick ends after some of the requests have failed
TickNotifyFail(a, k) ==
  /\ ticks[a][k].sent # Undefined
  /\ \E failed \in (SUBSET ticks[a][k].sent[1].to) \ {{}} : TickNotifyEnds(a, k, failed)
  /\ Fault

\* the coordinator with a transport that may fail
NextFanout ==
  \/ Next
  \/ \E p \in Procs : NotifyFail(p)
  \/ \E a \in AuctionIds, k \in TickIds : TickNotifyFail(a, k)

SpecFanout == Init /\ [][NextFanout]_vars

\* the coordinator with a store that may fail under a handler
NextFail ==
  \/ Next
  \/ \E p \in Procs : HbeeGetFail(p)
  \/ \E p \in Procs : HbeePutFail(p)
  \/ \E p \in Procs : DirectoryGetFail(p)

SpecFail == Init /\ [][NextFail]_vars

\* the coordinator with a store that may fail under a timer callback
NextTickFail ==
  \/ Next
  \/ \E a \in AuctionIds : TickGetFail(a)
  \/ \E a \in AuctionIds, k \in TickIds : TickPutFail(a, k)
  \/ \E a \in AuctionIds, k \in TickIds : TickDirectoryGetFail(a, k)

SpecTickFail == Init /\ [][NextTickFail]_vars

\* ------------------------------------- the peer: ClientServer.registerClient

\* the answers of the coordinator's registerClient handler
RegisterResponses ==
  { [NoResp EXCEPT !.success = Some(TRUE)], CatchResponse("registerClient") }

\* ReturnsOn without its test: the loop goes on after a request that succeeded
ReturnsOnNever(success) == FALSE

\* if (success) return
ReturnsOn(success) == success

\* while (attempts > 0): register() sends the registration request
RegisterSend(peer) ==
  /\ reg[peer].pc = "loop"
  /\ reg[peer].attempts > 0
  /\ reg' = [reg EXCEPT ![peer] = [@ EXCEPT !.pc = "request", !.requests = @ + 1]]
  /\ UNCHANGED <<store, clients, now, nextId, procs, timer, ticks, faults>>

\* await this.rpc.request(...) returns a response: register() returns true
\* whatever the response says, and registerClient returns
RegisterResponse(peer) ==
  /\ reg[peer].pc = "request"
  /\ \E response \in RegisterResponses :
       reg' = [reg EXCEPT ![peer] =
         [@ EXCEPT !.response = Some(response),
                   !.pc = IF ReturnsOn(TRUE) THEN "returned" ELSE "delay"]]
  /\ UNCHANGED <<store, clients, now, nextId, procs, timer, ticks, faults>>

\* await this.rpc.request(...) throws (timeout after 5 s, unreachable):
\* register() returns false, and the loop waits 2 seconds
RegisterThrow(peer) ==
  /\ reg[peer].pc = "request"
  /\ reg' = [reg EXCEPT ![peer] =
       [@ EXCEPT !.pc = IF ReturnsOn(FALSE) THEN "returned" ELSE "delay"]]
  /\ UNCHANGED <<store, clients, now, nextId, procs, timer, ticks, faults>>

\* the 2 seconds are over: attempts--, and back to the test of the loop
RetryDelay(peer) ==
  /\ reg[peer].pc = "delay"
  /\ reg' = [reg EXCEPT ![peer] = [@ EXCEPT !.pc = "loop", !.attempts = @ - 1]]
  /\ UNCHANGED <<store, clients, now, nextId, procs, timer, ticks, faults>>

\* the loop ends with attempts === 0: process.exit(1)
RegisterExhausted(peer) ==
  /\ reg[peer].pc = "loop"
  /\ reg[peer].attempts = 0
  /\ reg' = [reg EXCEPT ![peer] = [@ EXCEPT !.pc = "exited"]]
  /\ UNCHANGED <<store, clients, now, nextId, procs, timer, ticks, faults>>

RegisterStep(peer) ==
  \/ RegisterSend(peer)
  \/ RegisterResponse(peer)
  \/ RegisterThrow(peer)
  \/ RetryDelay(peer)
  \/ RegisterExhausted(peer)

NextRegister ==
  \/ \E peer \in Peers : RegisterSend(peer)
  \/ \E peer \in Peers : RegisterResponse(peer)
  \/ \E peer \in Peers : RegisterThrow(peer)
  \/ \E peer \in Peers : RetryDelay(peer)
  \/ \E peer \in Peers : RegisterExhausted(peer)

\* Every peer is a process of its own whose event loop runs: a request ends
\* with a response or, after its timeout, with a throw, and a delay ends.
SpecRegister ==
  Init /\ [][NextRegister]_vars /\ \A peer \in Peers : WF_vars(RegisterStep(peer))

\* ================================================================ properties

IsPrefix(s, t) == Len(s) <= Len(t) /\ SubSeq(t, 1, Len(s)) = s
Last(s) == s[Len(s)]

Stored(a) == store[a] # Undefined
OpenKind(a, kind) ==
  Stored(a) /\ ~store[a][1].closed /\ store[a][1].auctionType = kind

\* the steps of handler invocation p
Starts(p, op) == procs[p].pc = "idle" /\ procs'[p].op = op
Writes(p, op) == procs[p].op = op /\ procs[p].pc = "put" /\ procs'[p].pc = "notify"
Answers(p, op) == procs[p].op = op /\ procs[p].pc = "notify" /\ procs'[p].pc = "done"
Rejected(p, op) == Starts(p, op) /\ procs'[p].pc = "done"

\* invocation p is between its read of the record of auction a and its write
Mutating(p, a) ==
  /\ procs[p].op \in {"placeBid", "closeAuction"}
  /\ procs[p].auctionId = a
  /\ procs[p].pc = "put"

\* C1: once the stored record of an auction is closed, every step leaves it
\* closed and its bids, highestBid, winningBid and finalPrice as they are.
C1_ClosedIsAbsorbing ==
  [][\A a \in AuctionIds :
       (Stored(a) /\ store[a][1].closed) =>
         /\ store'[a] # Undefined
         /\ store'[a][1].closed
         /\ store'[a][1].bids = store[a][1].bids
         /\ store'[a][1].highestBid = store[a][1].highestBid
         /\ store'[a][1].winningBid = store[a][1].winningBid
         /\ store'[a][1].finalPrice = store[a][1].finalPrice]_vars

\* the placeBid calls on auction a that were answered with success
AcceptedBids(a) ==
  { p \in Procs : /\ procs[p].op = "placeBid" /\ procs[p].auctionId = a
                  /\ procs[p].pc = "done" /\ procs[p].resp.success = Some(TRUE) }

\* C2: at most one placeBid call on a Dutch auction is answered with success.
C2_DutchFirstBidWins ==
  \A a \in AuctionIds :
    (Stored(a) /\ store[a][1].auctionType = "dutch") => Cardinality(AcceptedBids(a)) <= 1

\* C3: the stored bids of every English auction are strictly increasing in
\* amount, and the first is above startPrice.
C3_EnglishBidsIncreasing ==
  \A a \in AuctionIds :
    (Stored(a) /\ store[a][1].auctionType = "english") =>
      LET bids == store[a][1].bids IN
      \A i \in 1..Len(bids) :
        /\ i = 1 => bids[i].amount > store[a][1].startPrice
        /\ \A j \in 1..(i - 1) : bids[i].amount > bids[j].amount

\* two placeBid calls that were in flight together both wrote an English
\* auction whose stored bids are not empty
C3_Witness ==
  \E a \in AuctionIds, p, q \in Procs :
    /\ p # q
    /\ Stored(a) /\ store[a][1].auctionType = "english" /\ Len(store[a][1].bids) >= 1
    /\ procs[p].op = "placeBid" /\ procs[p].auctionId = a /\ procs[p].wrote
    /\ procs[q].op = "placeBid" /\ procs[q].auctionId = a /\ procs[q].wrote
    /\ procs[p].pc = "notify" /\ procs[q].pc = "notify"

\* C4: no two mutating operations (placeBid, closeAuction, a tick) are between
\* their read and their write of the same auction at the same time.
C4_MutualExclusion ==
  \A a \in AuctionIds :
    Cardinality({ p \in Procs : Mutating(p, a) })
      + Cardinality({ k \in TickIds : ticks[a][k].pc = "put" }) <= 1

\* C5: the stored bids of an auction only grow: before every step they are a
\* prefix of what they are after it.
C5_BidsAppendOnly ==
  [][\A a \in AuctionIds :
       Stored(a) => /\ store'[a] # Undefined
                    /\ IsPrefix(store[a][1].bids, store'[a][1].bids)]_vars

\* the maximum amount over a non-empty sequence of bids, and a bid that has it
MaxAmount(bids) ==
  CHOOSE m \in { bids[i].amount : i \in 1..Len(bids) } :
    \A i \in 1..Len(bids) : bids[i].amount <= m
MaxBid(bids) == CHOOSE b \in Range(bids) : b.amount = MaxAmount(bids)

\* C6: a placeBid on an open English auction is rejected, with the threshold
\* (the maximum bid amount, or startPrice when there is no bid) in its
\* response, when amount <= threshold; otherwise it appends the bid as the
\* last of the stored bids, stores currentPrice = amount and answers
\* {success, currentPrice = amount, closed = false}.
C6_EnglishAdmission ==
  [][\A p \in Procs :
       /\ (Starts(p, "placeBid") /\ OpenKind(procs'[p].auctionId, "english")) =>
            LET auctionDetails == store[procs'[p].auctionId][1]
                amount == procs'[p].amount
                threshold == IF auctionDetails.bids = <<>> THEN auctionDetails.startPrice
                             ELSE MaxAmount(auctionDetails.bids)
            IN  IF amount <= threshold
                THEN /\ procs'[p].pc = "done"
                     /\ procs'[p].resp.error # Undefined
                     /\ procs'[p].resp.currentHighestBid = Some(threshold)
                ELSE procs'[p].pc = "put"
       /\ (Writes(p, "placeBid") /\ procs[p].local[1].auctionType = "english") =>
            LET stored == store'[procs[p].auctionId][1] IN
            /\ Last(stored.bids).bidder = procs[p].bidder
            /\ Last(stored.bids).amount = procs[p].amount
            /\ stored.currentPrice = procs[p].amount
       /\ (Answers(p, "placeBid") /\ procs[p].local[1].auctionType = "english") =>
            /\ procs'[p].resp.success = Some(TRUE)
            /\ procs'[p].resp.currentPrice = Some(procs[p].amount)
            /\ procs'[p].resp.closed = Some(FALSE)]_vars

\* max(startPrice - decrementRate * elapsedSeconds, minimumPrice)
DecayedPrice(auctionDetails, t) ==
  LET linear == auctionDetails.startPrice
                  - auctionDetails.decrementRate * (t - auctionDetails.startTime)
  IN  IF linear > auctionDetails.minimumPrice THEN linear ELSE auctionDetails.minimumPrice

\* C7: a placeBid on an open Dutch auction is rejected, with the decayed price
\* in its response, when amount is below that price; otherwise its write
\* stores closed = true, winner = bidder, finalPrice = amount and
\* winningBid = {bidder, amount, timestamp}, and its response reports closed.
C7_DutchAdmission ==
  [][\A p \in Procs :
       /\ (Starts(p, "placeBid") /\ OpenKind(procs'[p].auctionId, "dutch")) =>
            LET price == DecayedPrice(store[procs'[p].auctionId][1], now) IN
            IF procs'[p].amount < price
            THEN /\ procs'[p].pc = "done"
                 /\ procs'[p].resp.error # Undefined
                 /\ procs'[p].resp.currentPrice = Some(price)
            ELSE procs'[p].pc = "put"
       /\ (Writes(p, "placeBid") /\ procs[p].local[1].auctionType = "dutch") =>
            LET stored == store'[procs[p].auctionId][1] IN
            /\ stored.closed
            /\ stored.winner = Some(procs[p].bidder)
            /\ stored.finalPrice = Some(procs[p].amount)
            /\ stored.winningBid # Undefined
            /\ stored.winningBid[1].bidder = procs[p].bidder
            /\ stored.winningBid[1].amount = procs[p].amount
            /\ stored.winningBid[1].timestamp <= now
       /\ (Answers(p, "placeBid") /\ procs[p].local[1].auctionType = "dutch") =>
            /\ procs'[p].resp.success = Some(TRUE)
            /\ procs'[p].resp.closed = Some(TRUE)]_vars

\* one bid on a Dutch auction was rejected as too low and another was
\* accepted: the stored record is closed with that bidder as the winner
C7_Witness ==
  \E a \in AuctionIds, p, q \in Procs :
    /\ Stored(a) /\ store[a][1].auctionType = "dutch" /\ store[a][1].closed
    /\ procs[p].op = "placeBid" /\ procs[p].auctionId = a /\ procs[p].pc = "done"
    /\ procs[p].resp.success = Some(TRUE) /\ procs[p].resp.closed = Some(TRUE)
    /\ store[a][1].winner = Some(procs[p].bidder)
    /\ store[a][1].finalPrice = Some(procs[p].amount)
    /\ procs[q].op = "placeBid" /\ procs[q].auctionId = a /\ procs[q].pc = "done"
    /\ procs[q].resp.error = Some(ErrDutchLow)

\* C8: a placeBid for an unknown auctionId is rejected with NotFound and one
\* for a closed auction with AlreadyClosed; every rejected placeBid answers
\* with an error, leaves the stored records and the directory as they are,
\* and has neither written nor broadcast.
C8_RejectedBidNoEffect ==
  [][\A p \in Procs :
       /\ (Starts(p, "placeBid") /\ ~Stored(procs'[p].auctionId)) =>
            (procs'[p].pc = "done" /\ procs'[p].resp.error = Some(ErrNotFound))
       /\ (Starts(p, "placeBid") /\ Stored(procs'[p].auctionId)
              /\ store[procs'[p].auctionId][1].closed) =>
            (procs'[p].pc = "done" /\ procs'[p].resp.error = Some(ErrClosed))
       /\ Rejected(p, "placeBid") =>
            /\ procs'[p].resp.error # Undefined
            /\ procs'[p].resp.success = Undefined
            /\ store' = store
            /\ clients' = clients
            /\ procs'[p].sent = Undefined
            /\ ~procs'[p].wrote]_vars

\* a bid for an unknown auction and a bid on a closed auction were rejected
C8_Witness ==
  \E p, q \in Procs :
    /\ procs[p].op = "placeBid" /\ procs[p].pc = "done"
    /\ procs[p].resp.error = Some(ErrNotFound)
    /\ procs[q].op = "placeBid" /\ procs[q].pc = "done"
    /\ procs[q].resp.error = Some(ErrClosed)

\* no invocation and no tick is at work on auction a
Quiet(a) ==
  /\ \A r \in Procs : procs[r].auctionId = a => procs[r].pc \in {"idle", "done"}
  /\ \A k \in TickIds : ticks[a][k].pc \in {"idle", "done"}

\* C9: a closeAuction call that follows a closeAuction call on the same
\* auction, with nothing at work on the auction in between, returns the same
\* highestBid and winningBid as the first, writes nothing and broadcasts nothing.
C9_CloseIdempotent ==
  [][\A p, q \in Procs :
       ( /\ p # q
         /\ procs[p].op = "closeAuction" /\ procs[p].pc = "done"
         /\ procs[p].resp.error # Some(ErrNotFound)
         /\ Starts(q, "closeAuction")
         /\ procs'[q].auctionId = procs[p].auctionId
         /\ Quiet(procs[p].auctionId) ) =>
       /\ procs'[q].pc = "done"
       /\ procs'[q].resp.highestBid = procs[p].resp.highestBid
       /\ procs'[q].resp.winningBid = procs[p].resp.winningBid
       /\ ~procs'[q].wrote
       /\ procs'[q].sent = Undefined]_vars

\* C10: closeAuction on an open English auction stores closed = true and
\* highestBid = the bid of maximum amount (the sentinel when there is no
\* bid), writes the record, broadcasts auctionClosed with that highestBid and
\* returns it; closing an open Dutch auction sets no winningBid.
C10_CloseEnglish ==
  [][\A p \in Procs :
       /\ (Starts(p, "closeAuction") /\ OpenKind(procs'[p].auctionId, "english")) =>
            LET bids == store[procs'[p].auctionId][1].bids IN
            /\ procs'[p].pc = "put"
            /\ procs'[p].local[1].closed
            /\ procs'[p].local[1].highestBid =
                 Some(IF bids = <<>> THEN SentinelBid ELSE MaxBid(bids))
       /\ (Starts(p, "closeAuction") /\ OpenKind(procs'[p].auctionId, "dutch")) =>
            /\ procs'[p].pc = "put"
            /\ procs'[p].local[1].closed
            /\ procs'[p].local[1].winningBid = Undefined
       /\ Writes(p, "closeAuction") =>
            /\ store'[procs[p].auctionId] = procs[p].local
            /\ procs'[p].sent # Undefined
            /\ procs'[p].sent[1].type = "auctionClosed"
            /\ procs'[p].sent[1].data.highestBid = procs[p].local[1].highestBid
       /\ Answers(p, "closeAuction") =>
            /\ procs'[p].resp.success = Some(TRUE)
            /\ procs'[p].resp.highestBid = procs[p].local[1].highestBid
            /\ procs'[p].resp.winningBid = procs[p].local[1].winningBid]_vars

\* the registerClient calls that have returned
Registered(p) == procs[p].op = "registerClient" /\ procs[p].pc = "done"

\* C11: no peerId is twice in the stored clients list, and every registerClient
\* call that has returned has answered success.
C11_DirectorySet ==
  /\ \A i, j \in 1..Len(clients) : clients[i] = clients[j] => i = j
  /\ \A p \in Procs : Registered(p) => procs[p].resp.success = Some(TRUE)

\* the same peer registered twice at the same time (both calls wrote the
\* directory) and once more after that (a call that wrote nothing)
C11_Witness ==
  \E p, q, r \in Procs :
    /\ p # q
    /\ Registered(p) /\ Registered(q) /\ Registered(r)
    /\ procs[p].bidder = procs[q].bidder /\ procs[q].bidder = procs[r].bidder
    /\ procs[p].wrote /\ procs[q].wrote /\ ~procs[r].wrote
    /\ clients = <<procs[p].bidder>>

\* C12: the peerId of every registerClient call that has returned success is
\* in the stored clients list.
C12_EntriesNeverRemoved ==
  \A p \in Procs :
    (Registered(p) /\ procs[p].resp.success = Some(TRUE)) =>
      procs[p].bidder \in Range(clients)

\* C13: getAuctionDetails on an open Dutch auction with no bids returns
\* currentPrice = max(startPrice - decrementRate * elapsed, minimumPrice), not
\* below minimumPrice, and closed = false; with startPrice 500, decrementRate 5
\* and minimumPrice 250 the price is 450 after 10 seconds and never below 250.
C13_DutchDecay ==
  [][\A p \in Procs :
       ( /\ Starts(p, "getAuctionDetails")
         /\ OpenKind(procs'[p].auctionId, "dutch")
         /\ store[procs'[p].auctionId][1].bids = <<>> ) =>
       LET auctionDetails == store[procs'[p].auctionId][1]
           details == procs'[p].resp.details
       IN  /\ procs'[p].pc = "done"
           /\ details # Undefined
           /\ details[1].currentPrice = DecayedPrice(auctionDetails, now)
           /\ details[1].currentPrice >= auctionDetails.minimumPrice
           /\ details[1].closed = FALSE
           /\ calculateDutchPrice(500, 0, 5, 250, 10) = 450
           /\ \A t \in 0..100 : calculateDutchPrice(500, 0, 5, 250, t) >= 250]_vars

\* getAuctionDetails has answered for an open Dutch auction without bids once
\* with a price between startPrice and minimumPrice and once with minimumPrice
C13_Witness ==
  \E p, q \in Procs :
    /\ procs[p].op = "getAuctionDetails" /\ procs[p].pc = "done"
    /\ procs[q].op = "getAuctionDetails" /\ procs[q].pc = "done"
    /\ procs[p].resp.details # Undefined /\ procs[q].resp.details # Undefined
    /\ LET d == procs[p].resp.details[1]
           e == procs[q].resp.details[1]
       IN  /\ d.auctionType = "dutch" /\ ~d.closed /\ d.bids = <<>>
           /\ d.minimumPrice < d.currentPrice /\ d.currentPrice < d.startPrice
           /\ e.auctionType = "dutch" /\ ~e.closed /\ e.bids = <<>>
           /\ e.currentPrice = e.minimumPrice

\* C14: getAuctionDetails returns at once, writes no record and no directory,
\* broadcasts nothing and leaves every timer and tick as it is; an unknown
\* auctionId is answered with NotFound and a known one with the record.
C14_GetDetailsReadOnly ==
  [][\A p \in Procs :
       Starts(p, "getAuctionDetails") =>
         /\ procs'[p].pc = "done"
         /\ store' = store
         /\ clients' = clients
         /\ timer' = timer
         /\ ticks' = ticks
         /\ ~procs'[p].wrote
         /\ procs'[p].sent = Undefined
         /\ IF Stored(procs'[p].auctionId)
            THEN /\ procs'[p].resp.error = Undefined
                 /\ procs'[p].resp.details # Undefined
                 /\ procs'[p].resp.details[1].bids = store[procs'[p].auctionId][1].bids
                 /\ procs'[p].resp.details[1].closed = store[procs'[p].auctionId][1].closed
            ELSE /\ procs'[p].resp.error = Some(ErrNotFound)
                 /\ procs'[p].resp.details = Undefined]_vars

\* getAuctionDetails was answered with NotFound for an unknown auctionId and
\* with the record of a closed auction
C14_Witness ==
  \E p, q \in Procs :
    /\ procs[p].op = "getAuctionDetails" /\ procs[p].pc = "done"
    /\ procs[p].resp.error = Some(ErrNotFound)
    /\ procs[q].op = "getAuctionDetails" /\ procs[q].pc = "done"
    /\ procs[q].resp.details # Undefined
    /\ procs[q].resp.details[1].closed

\* the registration loop of the peer is over
RegisterEnded(peer) == reg[peer].pc \in {"returned", "exited"}

\* C18: Register sends at most retryCount (5) requests; the request that is
\* answered is the last one sent and registerClient returns with it; when
\* every request fails exactly retryCount requests are sent before the loop
\* ends as exhausted; and the loop ends in every behaviour.
C18_RegistrationBounded ==
  /\ [](\A peer \in Peers :
          /\ reg[peer].requests <= retryCount
          /\ reg[peer].pc = "returned" =>
               (reg[peer].response # Undefined /\ reg[peer].requests >= 1)
          /\ reg[peer].pc = "exited" =>
               (reg[peer].response = Undefined /\ reg[peer].requests = retryCount))
  /\ [][\A peer \in Peers :
          /\ (reg[peer].response = Undefined /\ reg'[peer].response # Undefined) =>
               (reg'[peer].pc = "returned" /\ reg'[peer].requests = reg[peer].requests)
          /\ RegisterEnded(peer) => reg'[peer] = reg[peer]]_vars
  /\ \A peer \in Peers : <>RegisterEnded(peer)

\* one peer registered with its third request after two that failed, and the
\* other gave up after retryCount requests
C18_Witness ==
  \E peer, other \in Peers :
    /\ reg[peer].pc = "returned" /\ reg[peer].requests = 3
    /\ reg[other].pc = "exited" /\ reg[other].requests = retryCount

\* invocation p issues its broadcast, and invocation p returns from it
Broadcasts(p) ==
  procs[p].op \in AuctionOps /\ procs[p].pc = "put" /\ procs'[p].pc = "notify"
Returns(p) ==
  procs[p].op \in AuctionOps /\ procs[p].pc = "notify" /\ procs'[p].pc = "done"

C16_DutchBidStopsScheduler ==
  [][\A p \in Procs :
       /\ (Writes(p, "placeBid") /\ procs[p].local[1].auctionType = "dutch") =>
            /\ procs'[p].sent # Undefined
            /\ procs'[p].sent[1].type = "auctionClosed"
       /\ (Answers(p, "placeBid") /\ procs[p].local[1].auctionType = "dutch") =>
            timer'[procs[p].auctionId].state # "running"]_vars

\* the request checks that the spec asks of openAuction, on the record built
ValidAuction(auctionDetails) ==
  /\ auctionDetails.auctionType \in {"english", "dutch"}
  /\ auctionDetails.startPrice > 0
  /\ auctionDetails.auctionType = "dutch" =>
       /\ auctionDetails.decrementRate > 0
       /\ 0 <= auctionDetails.minimumPrice
       /\ auctionDetails.minimumPrice <= auctionDetails.startPrice

\* C17: an openAuction whose request is not valid is answered with an error
\* and has neither written nor broadcast, and no timer is started for it; so
\* every stored record is valid.
C17_OpenAuctionValidates ==
  /\ [][\A p \in Procs :
          (procs[p].pc = "idle" /\ procs'[p].op = "openAuction"
             /\ procs'[p].local # Undefined /\ ~ValidAuction(procs'[p].local[1])) =>
            /\ procs'[p].pc = "done"
            /\ procs'[p].resp.error # Undefined
            /\ ~procs'[p].wrote
            /\ procs'[p].sent = Undefined]_vars
  /\ [](\A a \in AuctionIds : Stored(a) => ValidAuction(store[a][1]))

\* the read of the directory in the broadcast of invocation p has failed
DirectoryReadFailed(p) ==
  procs[p].op \in AuctionOps /\ procs[p].pc = "notify" /\ procs[p].sent = Undefined

\* C19: an invocation in which a store read or write fails returns an error
\* response (no success), without a second try of the operation; when the
\* write of its record failed, nothing is stored and nothing is broadcast.
C19_PersistenceFailureReported ==
  [][\A p \in Procs :
       /\ (faults' # faults /\ procs[p].pc = "idle" /\ procs'[p].pc # "idle") =>
            /\ procs'[p].pc = "done"
            /\ procs'[p].resp.error # Undefined
            /\ procs'[p].resp.success # Some(TRUE)
            /\ store' = store /\ clients' = clients
            /\ procs'[p].sent = Undefined
       /\ (faults' # faults /\ procs[p].pc = "put" /\ procs'[p].pc = "done") =>
            /\ procs'[p].resp.error # Undefined
            /\ procs'[p].resp.success # Some(TRUE)
            /\ store' = store /\ clients' = clients
            /\ ~procs'[p].wrote
            /\ procs'[p].sent = Undefined
       /\ (DirectoryReadFailed(p) /\ procs'[p].pc = "done") =>
            /\ procs'[p].resp.error # Undefined
            /\ procs'[p].resp.success # Some(TRUE)]_vars

\* the ticks of auction a that are between their read of the record and the
\* end of their broadcast
RunningTicks(a) == { k \in TickIds : ticks[a][k].pc \in {"put", "notify"} }

\* C20: at most one tick of the timer of an auction is at work at a time.
C20_TicksNeverOverlap ==
  \A a \in AuctionIds : Cardinality(RunningTicks(a)) <= 1

\* the steps of tick k of the timer of auction a
TickReads(a, k) == ticks[a][k].pc = "idle" /\ ticks'[a][k].pc # "idle"
TickWrites(a, k) == ticks[a][k].pc = "put" /\ ticks'[a][k].pc = "notify"
TickEnds(a, k) == ticks[a][k].pc = "notify" /\ ticks'[a][k].pc = "done"

\* C21: a tick that reads an open Dutch auction closes it exactly when the
\* decayed price at the tick has reached minimumPrice. The closing tick
\* writes closed = true and currentPrice = minimumPrice, broadcasts
\* auctionClosed with the reason minimum_price_reached and the final price,
\* and clears the timer when the broadcast has ended; any other tick writes
\* the decayed price with closed = false, broadcasts priceUpdate with that
\* price and leaves the timer as it is.
C21_TickBody ==
  [][\A a \in AuctionIds, k \in TickIds :
       /\ (TickReads(a, k) /\ Stored(a) /\ ~store[a][1].closed) =>
            LET auctionDetails == store[a][1]
                price == DecayedPrice(auctionDetails, now)
            IN  /\ ticks'[a][k].pc = "put"
                /\ timer'[a].state = "running"
                /\ store' = store
                /\ ticks'[a][k].local =
                     Some(IF price <= auctionDetails.minimumPrice
                          THEN [auctionDetails EXCEPT
                                  !.closed = TRUE,
                                  !.currentPrice = auctionDetails.minimumPrice]
                          ELSE [auctionDetails EXCEPT !.currentPrice = price])
       /\ TickWrites(a, k) =>
            LET auctionDetails == ticks[a][k].local[1]
                sent == ticks'[a][k].sent[1]
            IN  /\ store'[a] = Some(auctionDetails)
                /\ sent.auctionId = a
                /\ sent.to = Range(clients)
                /\ IF auctionDetails.closed
                   THEN /\ sent.type = "auctionClosed"
                        /\ sent.data.reason = Some("minimum_price_reached")
                        /\ sent.data.finalPrice = Some(auctionDetails.minimumPrice)
                   ELSE /\ sent.type = "priceUpdate"
                        /\ sent.data.currentPrice = auctionDetails.currentPrice
                /\ timer' = timer
       /\ TickEnds(a, k) =>
            /\ store' = store
            /\ timer'[a] = IF ticks[a][k].local[1].closed
                           THEN [timer[a] EXCEPT !.state = "cleared"]
                           ELSE timer[a]]_vars

\* the first tick of a Dutch auction found the price above the minimum and
\* announced it to a peer, the second found it at the minimum and closed the
\* auction
C21_Witness ==
  \E a \in AuctionIds :
    /\ Stored(a) /\ store[a][1].auctionType = "dutch"
    /\ ticks[a][1].pc = "done" /\ ticks[a][1].wrote
    /\ ticks[a][1].sent[1].type = "priceUpdate"
    /\ ticks[a][1].sent[1].data.currentPrice > store[a][1].minimumPrice
    /\ ticks[a][2].pc = "done" /\ ticks[a][2].wrote
    /\ ticks[a][2].sent[1].type = "auctionClosed"
    /\ ticks[a][2].sent[1].to # {}
    /\ store[a][1].closed
    /\ store[a][1].currentPrice = store[a][1].minimumPrice
    /\ store[a][1].winner = Undefined
    /\ timer[a].state = "cleared"

\* C23: openAuction builds a record with startPrice = currentPrice = the
\* price of the request, closed = false and no bids, and has stored it when
\* the newAuction broadcast starts; no timer exists for the auction before
\* that broadcast has ended; at its end the timer of a Dutch auction is
\* started and that of an English auction is not, and a timer is started by
\* no other step.
C23_OpenAuctionOrder ==
  [][\A p \in Procs :
       LET a == procs'[p].auctionId IN
       /\ Starts(p, "openAuction") =>
            LET auctionDetails == procs'[p].local[1] IN
            /\ procs'[p].pc = "put"
            /\ auctionDetails.startPrice = auctionDetails.currentPrice
            /\ \E req \in OpenRequests : auctionDetails.startPrice = req.price
            /\ ~auctionDetails.closed
            /\ auctionDetails.bids = <<>>
            /\ procs'[p].sent = Undefined
            /\ store' = store /\ timer' = timer
            /\ timer[a].state = "none"
       /\ Writes(p, "openAuction") =>
            /\ procs[p].sent = Undefined
            /\ store[a] = Undefined
            /\ store'[a] = procs[p].local
            /\ procs'[p].sent[1].type = "newAuction"
            /\ procs'[p].sent[1].data.auction = store'[a][1]
            /\ timer' = timer
            /\ timer[a].state = "none"
       /\ Answers(p, "openAuction") =>
            /\ Stored(a)
            /\ timer[a].state = "none"
            /\ timer'[a].state =
                 IF procs[p].local[1].auctionType = "dutch" THEN "running" ELSE "none"
       /\ \A b \in AuctionIds :
            (timer[b].state = "none" /\ timer'[b].state # "none") =>
              \E q \in Procs : /\ Answers(q, "openAuction")
                               /\ procs[q].auctionId = b
                               /\ procs[q].local[1].auctionType = "dutch"]_vars

\* a Dutch and an English auction have been opened and announced to a peer:
\* the timer of the first is running and the second has none, time having
\* passed
C23_Witness ==
  \E p, q \in Procs :
    /\ procs[p].op = "openAuction" /\ procs[p].pc = "done"
    /\ procs[q].op = "openAuction" /\ procs[q].pc = "done"
    /\ procs[p].sent[1].to # {} /\ procs[q].sent[1].to # {}
    /\ store[procs[p].auctionId][1].auctionType = "dutch"
    /\ timer[procs[p].auctionId].state = "running"
    /\ store[procs[q].auctionId][1].auctionType = "english"
    /\ timer[procs[q].auctionId].state = "none"
    /\ now > 0

\* C24: when the request of a peer is answered with a response that does not
\* say success, registerClient of the peer does not return: it goes on to the
\* delay before its next request.
C24_FailureResponseRetried ==
  [][\A peer \in Peers :
       ( /\ reg[peer].pc = "request"
         /\ reg'[peer].response # Undefined
         /\ reg'[peer].response[1].success # Some(TRUE) ) =>
       (reg'[peer].pc = "delay" /\ reg'[peer].attempts = reg[peer].attempts)]_vars

\* the invocations and the ticks that have written a closed record of
\* auction a after reading an open one, and those that have broadcast
\* auctionClosed for it
ClosingHandlers(a) ==
  { p \in Procs : /\ procs[p].auctionId = a /\ procs[p].wrote
                  /\ \/ procs[p].op = "closeAuction"
                     \/ procs[p].op = "placeBid" /\ procs[p].sent[1].data.closed }
ClosingTicks(a) ==
  { k \in TickIds : ticks[a][k].wrote /\ ticks[a][k].sent[1].type = "auctionClosed" }
ClosedAnnouncers(a) ==
  { p \in Procs : /\ procs[p].auctionId = a /\ procs[p].sent # Undefined
                  /\ procs[p].sent[1].type = "auctionClosed" }

\* C26: for every auction at most one of closeAuction, placeBid and the ticks
\* has written the change from open to closed, and at most one auctionClosed
\* event has been broadcast.
C26_SingleClose ==
  \A a \in AuctionIds :
    /\ Cardinality(ClosingHandlers(a)) + Cardinality(ClosingTicks(a)) <= 1
    /\ Cardinality(ClosedAnnouncers(a)) + Cardinality(ClosingTicks(a)) <= 1

\* C27: the stored currentPrice of every English auction is the largest
\* amount of its stored bids, and its startPrice when it has no bid.
C27_EnglishCurrentPrice ==
  \A a \in AuctionIds :
    (Stored(a) /\ store[a][1].auctionType = "english") =>
      LET auctionDetails == store[a][1] IN
      auctionDetails.currentPrice =
        IF auctionDetails.bids = <<>> THEN auctionDetails.startPrice
        ELSE MaxAmount(auctionDetails.bids)

\* an English auction with two stored bids, the second of them the larger
C27_Witness ==
  \E a \in AuctionIds :
    /\ Stored(a) /\ store[a][1].auctionType = "english"
    /\ Len(store[a][1].bids) = 2
    /\ store[a][1].bids[2].amount > store[a][1].bids[1].amount
    /\ store[a][1].currentPrice = store[a][1].bids[2].amount
    /\ store[a][1].currentPrice # store[a][1].startPrice

\* C28: in the stored record of every Dutch auction winner, winningBid and
\* finalPrice are all absent or all present; when they are present the record
\* is closed, winner is the bidder of winningBid, finalPrice is its amount,
\* and finalPrice is not below minimumPrice.
C28_DutchWinnerFields ==
  \A a \in AuctionIds :
    (Stored(a) /\ store[a][1].auctionType = "dutch") =>
      LET auctionDetails == store[a][1] IN
      \/ /\ auctionDetails.winner = Undefined
         /\ auctionDetails.winningBid = Undefined
         /\ auctionDetails.finalPrice = Undefined
      \/ /\ auctionDetails.winner # Undefined
         /\ auctionDetails.winningBid # Undefined
         /\ auctionDetails.finalPrice # Undefined
         /\ auctionDetails.closed
         /\ auctionDetails.winner[1] = auctionDetails.winningBid[1].bidder
         /\ auctionDetails.finalPrice[1] = auctionDetails.winningBid[1].amount
         /\ auctionDetails.finalPrice[1] >= auctionDetails.minimumPrice

\* a Dutch auction whose first tick has lowered the price was won by a bid
\* placed after that tick
C28_Witness ==
  \E a \in AuctionIds :
    /\ Stored(a) /\ store[a][1].auctionType = "dutch"
    /\ ticks[a][1].wrote
    /\ store[a][1].winner # Undefined
    /\ store[a][1].winningBid[1].timestamp >= store[a][1].startTime + updateInterval
    /\ store[a][1].finalPrice[1] < store[a][1].startPrice

\* a store operation of a tick of auction a throws in this step
TickFails(a) == faults' # faults /\ ticks'[a] # ticks[a]

\* C25: a store read or write that fails inside a tick of an auction stops the
\* timer of that auction, and leaves the timers, ticks and records of the
\* other auctions, the handler invocations and the directory as they are.
C25_TickFailureIsolated ==
  [][\A a \in AuctionIds :
       TickFails(a) =>
         /\ timer'[a].state = "cleared"
         /\ \A b \in AuctionIds \ {a} :
              timer'[b] = timer[b] /\ ticks'[b] = ticks[b] /\ store'[b] = store[b]
         /\ procs' = procs
         /\ clients' = clients]_vars

\* C29: every Dutch auction with decrementRate > 0 ends closed and stays so.
\* Only a tick closes an auction without a call of a peer, so at the latest
\* when the timer of the auction has been stopped and no tick and no handler
\* is at work on it, its stored record is closed.
C29_DutchEndsClosed ==
  \A a \in AuctionIds :
    ( /\ Stored(a)
      /\ store[a][1].auctionType = "dutch" /\ store[a][1].decrementRate > 0
      /\ timer[a].state = "cleared"
      /\ Quiet(a) ) => store[a][1].closed

\* the timer of auction a fires once more within the time of the model
WillFire(a) ==
  /\ timer[a].state = "running"
  /\ timer[a].fired + 1 \in TickIds
  /\ \E n \in 0..MaxTime :
       /\ now + n * ClockStep >= timer[a].nextFire
       /\ now + n * ClockStep <= MaxTime

\* C22: a tick that reads a closed record clears the timer and ends without a
\* write and without a broadcast; a cleared timer starts no tick and stays as
\* it is, also when it is cleared again; and when the record of an auction is
\* closed while its timer runs, the timer is cleared by its next tick or, if
\* the record was reopened meanwhile, by the tick that closes it.
C22_SchedulerShutdown ==
  /\ [][\A a \in AuctionIds, k \in TickIds :
          /\ (TickReads(a, k) /\ Stored(a) /\ store[a][1].closed) =>
               /\ ticks'[a][k].pc = "done"
               /\ ~ticks'[a][k].wrote
               /\ ticks'[a][k].sent = Undefined
               /\ store' = store
               /\ timer'[a].state = "cleared"
          /\ timer[a].state = "cleared" =>
               /\ timer'[a] = timer[a]
               /\ ~TickReads(a, k)]_vars
  /\ \A a \in AuctionIds :
       (Stored(a) /\ store[a][1].closed /\ WillFire(a)) ~> (timer[a].state = "cleared")

\* the first tick of a Dutch auction lowered the price, a bid at that price
\* closed the auction while the timer was running, and the second tick found
\* the record closed: it wrote nothing and the timer is cleared
C22_Witness ==
  \E a \in AuctionIds :
    /\ Stored(a) /\ store[a][1].closed /\ store[a][1].winner # Undefined
    /\ ticks[a][1].pc = "done" /\ ticks[a][1].wrote
    /\ ticks[a][2].pc = "done" /\ ~ticks[a][2].wrote /\ ticks[a][2].sent = Undefined
    /\ timer[a].state = "cleared" /\ timer[a].fired = 2

====
